---------------------------- MODULE Spec2Model ----------------------------
(***************************************************************************)
(* PTEF: Brazilian-Portuguese number words (ptef/grammar.py) and the token *)
(* counting over [1, N] (ptef/combinatorics.py).                           *)
(*                                                                         *)
(* Python integers are unbounded; the integers of the model checker are    *)
(* 32 bits wide.  An integer n of the program is therefore held as the     *)
(* pair  [hi |-> n // 10^9, lo |-> n % 10^9]  (Python floor division, so   *)
(* 0 <= lo < 10^9 for every n, negative ones included).  Every value the   *)
(* grammar handles below the billions band has hi = 0 and is passed on as  *)
(* the plain integer lo.                                                   *)
(*                                                                         *)
(* A call either returns or raises: a result is a record                   *)
(*    [ok, tokens, exc, err]      (grammar)                                *)
(*    [ok, tokens, conns, exc, err, path]   (counting)                     *)
(* where exc is the Python exception class and err tells the raise         *)
(* statement it comes from.  Token maps (dict token -> count, every stored *)
(* count positive) are bags.                                               *)
(*                                                                         *)
(* ptef/lexicon.py keeps two module globals, _lexicon and _loaded; whether *)
(* the lexicon file is found where load_lexicon looks for it is decided by *)
(* the installation and is drawn at the start of a behaviour.  Concurrent  *)
(* callers of load_lexicon run it statement by statement (pc, ret).        *)
(*                                                                         *)
(* ptef/pauses.py: count_pauses on a token map; a probability is held as   *)
(* the fraction num / den.                                                 *)
(***************************************************************************)
EXTENDS Integers, Sequences, FiniteSets, Bags, TLC

VARIABLES
    op,         \* the public function called last ("none" before any call)
    n,          \* text_number: argument n
    policy,     \* text_number: argument policy
    result,     \* text_number: outcome of the call
    N,          \* count_tokens_up_to_N: argument N of the last call
    cpolicy,    \* count_tokens_up_to_N: argument policy of the last call
    counts,     \* count_tokens_up_to_N: outcome of the last call
    prevN,      \* count_tokens_up_to_N: argument N of the call before
    prevCounts, \* count_tokens_up_to_N: outcome of the call before (same policy)
    base999,    \* count_tokens_up_to_999: outcome of the call
    _lexicon,   \* lexicon.py global: token -> syllable count
    _loaded,    \* lexicon.py global: the lexicon has been loaded
    file_found, \* whether bp_number_tokens_syllables.csv is at lexicon_path
    syl,        \* syllables: argument and outcome of the last call
    valid,      \* validate_tokens: argument and outcome of the last call
    held,       \* the dict a caller got from count_tokens_up_to_999, as it is now
    base999_again, \* count_tokens_up_to_999: outcome of a second call
    n2,         \* text_number: argument n of another call
    result2,    \* text_number: outcome of that call
    pc,         \* load_lexicon: the statement each thread is at
    ret,        \* load_lexicon: what each thread's call returned
    pause       \* count_pauses: arguments and outcome of the last call

grammarVars == <<n, policy, result>>
countVars == <<N, cpolicy, counts, prevN, prevCounts, base999>>
lexVars == <<_lexicon, _loaded, file_found, syl, valid>>
tableVars == <<held, base999_again>>
pairVars == <<n2, result2>>
threadVars == <<pc, ret>>

vars == <<op, n, policy, result, N, cpolicy, counts, prevN, prevCounts,
          base999, _lexicon, _loaded, file_found, syl, valid,
          held, base999_again, n2, result2, pc, ret, pause>>

---------------------------------------------------------------------------
(* Bounds of the model *)

\* text_number and count_tokens_up_to_N are called with every integer of
\* -MaxNeg .. MaxSmall
MaxSmall == 130
MaxNeg == 3
\* ... and with every integer within Edge of a band border
Edge == 2
\* largest n // 10^9 tried
MaxHi == 1001
\* count_tokens_up_to_N is called with every integer of -MaxNeg .. MaxCount
MaxCount == 30
\* the words of 0 .. MaxLex (and of the tens, hundreds and scale words) are
\* looked up in the lexicon
MaxLex == 21
\* number of threads that call load_lexicon concurrently
MaxThreads == 3
\* count_pauses is called with token maps whose counts go up to MaxRepeat
\* times those of one number
MaxRepeat == 10

---------------------------------------------------------------------------
(* Integers of the program *)

Billion == 1000000000

Py(k) == [hi |-> 0, lo |-> k]
Wide(h, l) == [hi |-> h, lo |-> l]

\* k as a program integer, for any k with |k| < 10^9
OfInt(k) == IF k >= 0 THEN Wide(0, k) ELSE Wide(-1, Billion + k)

LE(a, b) == a.hi < b.hi \/ (a.hi = b.hi /\ a.lo <= b.lo)
LT(a, b) == a.hi < b.hi \/ (a.hi = b.hi /\ a.lo < b.lo)
Between(a, x, b) == LE(a, x) /\ LE(x, b)

---------------------------------------------------------------------------
(* Outcomes *)

Ok(s) == [ok |-> TRUE, tokens |-> s, exc |-> "none", err |-> "none"]
Raise(c, e) == [ok |-> FALSE, tokens |-> <<>>, exc |-> c, err |-> e]
Pending == [ok |-> FALSE, tokens |-> <<>>, exc |-> "none", err |-> "nocall"]

\* a + b of two lists, either of which may have raised instead
Cat(a, b) == IF ~a.ok THEN a ELSE IF ~b.ok THEN b ELSE Ok(a.tokens \o b.tokens)

---------------------------------------------------------------------------
(* ptef/grammar.py *)

units == << "", "um", "dois", "três", "quatro", "cinco", "seis", "sete", "oito", "nove",
            "dez", "onze", "doze", "treze", "quatorze", "quinze", "dezesseis",
            "dezessete", "dezoito", "dezenove" >>

tens == << "", "", "vinte", "trinta", "quarenta", "cinquenta",
           "sessenta", "setenta", "oitenta", "noventa" >>

hundreds_words == << "", "", "duzentos", "trezentos", "quatrocentos",
                     "quinhentos", "seiscentos", "setecentos",
                     "oitocentos", "novecentos" >>

\* lst[i] of a Python list (0-based; a negative index counts from the end)
Index(lst, i) ==
    IF 0 <= i /\ i < Len(lst) THEN Ok(<<lst[i + 1]>>)
    ELSE IF -Len(lst) <= i /\ i < 0 THEN Ok(<<lst[Len(lst) + i + 1]>>)
    ELSE Raise("IndexError", "index")

\* [units[n]] if units[n] else []
_units_tokens(k) ==
    LET u == Index(units, k)
    IN  IF ~u.ok THEN u
        ELSE IF u.tokens[1] # "" THEN u ELSE Ok(<<>>)

\* _tens_tokens without the connective between the tens and the unit word
_tens_tokens_no_e(k) ==
    LET tens_digit == k \div 10
        units_digit == k % 10
        tokens == Index(tens, tens_digit)
    IN  IF units_digit > 0
        THEN Cat(tokens, Index(_units_tokens(units_digit).tokens, 0))
        ELSE tokens

_tens_tokens(k) ==
    LET tens_digit == k \div 10
        units_digit == k % 10
        tokens == Index(tens, tens_digit)
    IN  IF units_digit > 0
        THEN Cat(tokens, Cat(Ok(<<"e">>), Index(_units_tokens(units_digit).tokens, 0)))
        ELSE tokens

\* _hundreds_tokens with "cem" for every hundreds digit of 1
_hundreds_tokens_cem_always(k) ==
    LET hundreds_digit == k \div 100
        remainder == k % 100
        tokens == IF hundreds_digit = 1 THEN Ok(<<"cem">>)
                  ELSE Index(hundreds_words, hundreds_digit)
    IN  IF remainder > 0
        THEN IF remainder < 20
             THEN Cat(tokens, Cat(Ok(<<"e">>), _units_tokens(remainder)))
             ELSE LET tens_tokens == _tens_tokens(remainder)
                  IN  IF ~tens_tokens.ok THEN tens_tokens
                      ELSE IF tens_tokens.tokens # <<>>
                      THEN Cat(tokens, Cat(Ok(<<"e">>), tens_tokens))
                      ELSE tokens
        ELSE tokens

\* _hundreds_tokens without the "if n == 100" case
_hundreds_tokens_no_cem(k) ==
    LET hundreds_digit == k \div 100
        remainder == k % 100
        tokens == IF hundreds_digit = 1 THEN Ok(<<"cento">>)
                  ELSE Index(hundreds_words, hundreds_digit)
    IN  IF remainder > 0
        THEN IF remainder < 20
             THEN Cat(tokens, Cat(Ok(<<"e">>), _units_tokens(remainder)))
             ELSE LET tens_tokens == _tens_tokens(remainder)
                  IN  IF ~tens_tokens.ok THEN tens_tokens
                      ELSE IF tens_tokens.tokens # <<>>
                      THEN Cat(tokens, Cat(Ok(<<"e">>), tens_tokens))
                      ELSE tokens
        ELSE tokens

\* _hundreds_tokens with tokens = ["cento", "e"] for a hundreds digit of 1
_hundreds_tokens_cento_e(k) ==
    LET hundreds_digit == k \div 100
        remainder == k % 100
        tokens == IF hundreds_digit = 1 THEN Ok(<<"cento", "e">>)
                  ELSE Index(hundreds_words, hundreds_digit)
    IN  IF k = 100 THEN Ok(<<"cem">>)
        ELSE IF remainder > 0
        THEN IF remainder < 20
             THEN Cat(tokens, Cat(Ok(<<"e">>), _units_tokens(remainder)))
             ELSE LET tens_tokens == _tens_tokens(remainder)
                  IN  IF ~tens_tokens.ok THEN tens_tokens
                      ELSE IF tens_tokens.tokens # <<>>
                      THEN Cat(tokens, Cat(Ok(<<"e">>), tens_tokens))
                      ELSE tokens
        ELSE tokens

\* _hundreds_tokens with "if remainder >= 0" for "if remainder > 0"
_hundreds_tokens_ge(k) ==
    LET hundreds_digit == k \div 100
        remainder == k % 100
        tokens == IF hundreds_digit = 1 THEN Ok(<<"cento">>)
                  ELSE Index(hundreds_words, hundreds_digit)
    IN  IF k = 100 THEN Ok(<<"cem">>)
        ELSE IF remainder >= 0
        THEN IF remainder < 20
             THEN Cat(tokens, Cat(Ok(<<"e">>), _units_tokens(remainder)))
             ELSE LET tens_tokens == _tens_tokens(remainder)
                  IN  IF ~tens_tokens.ok THEN tens_tokens
                      ELSE IF tens_tokens.tokens # <<>>
                      THEN Cat(tokens, Cat(Ok(<<"e">>), tens_tokens))
                      ELSE tokens
        ELSE tokens

_hundreds_tokens(k) ==
    LET hundreds_digit == k \div 100
        remainder == k % 100
        tokens == IF hundreds_digit = 1 THEN Ok(<<"cento">>)
                  ELSE Index(hundreds_words, hundreds_digit)
    IN  IF k = 100 THEN Ok(<<"cem">>)
        ELSE IF remainder > 0
        THEN IF remainder < 20
             THEN Cat(tokens, Cat(Ok(<<"e">>), _units_tokens(remainder)))
             ELSE LET tens_tokens == _tens_tokens(remainder)
                  IN  IF ~tens_tokens.ok THEN tens_tokens
                      ELSE IF tens_tokens.tokens # <<>>
                      THEN Cat(tokens, Cat(Ok(<<"e">>), tens_tokens))
                      ELSE tokens
        ELSE tokens

RECURSIVE _generate_tokens(_)

\* _thousands_tokens with "mil" alone for every thousands count, not only for 1
_thousands_tokens_mil_alone(k) ==
    LET remainder == k % 1000
        tokens == Ok(<<"mil">>)
    IN  IF remainder > 0
        THEN IF remainder < 100
             THEN Cat(tokens, Cat(Ok(<<"e">>), _generate_tokens(Py(remainder))))
             ELSE LET remainder_tokens == _generate_tokens(Py(remainder))
                  IN  IF ~remainder_tokens.ok THEN remainder_tokens
                      ELSE IF remainder_tokens.tokens # <<>>
                      THEN Cat(tokens, Cat(Ok(<<"e">>), remainder_tokens))
                      ELSE tokens
        ELSE tokens

\* _thousands_tokens with the connective only before a remainder below 100
_thousands_tokens_small_e(k) ==
    LET thousands == k \div 1000
        remainder == k % 1000
        tokens == IF thousands = 1 THEN Ok(<<"mil">>)
                  ELSE Cat(_generate_tokens(Py(thousands)), Ok(<<"mil">>))
    IN  IF remainder > 0
        THEN IF remainder < 100
             THEN Cat(tokens, Cat(Ok(<<"e">>), _generate_tokens(Py(remainder))))
             ELSE LET remainder_tokens == _generate_tokens(Py(remainder))
                  IN  IF ~remainder_tokens.ok THEN remainder_tokens
                      ELSE IF remainder_tokens.tokens # <<>>
                      THEN Cat(tokens, remainder_tokens)
                      ELSE tokens
        ELSE tokens

_thousands_tokens(k) ==
    LET thousands == k \div 1000
        remainder == k % 1000
        tokens == IF thousands = 1 THEN Ok(<<"mil">>)
                  ELSE Cat(_generate_tokens(Py(thousands)), Ok(<<"mil">>))
    IN  IF remainder > 0
        THEN IF remainder < 100
             THEN Cat(tokens, Cat(Ok(<<"e">>), _generate_tokens(Py(remainder))))
             ELSE LET remainder_tokens == _generate_tokens(Py(remainder))
                  IN  IF ~remainder_tokens.ok THEN remainder_tokens
                      ELSE IF remainder_tokens.tokens # <<>>
                      THEN Cat(tokens, Cat(Ok(<<"e">>), remainder_tokens))
                      ELSE tokens
        ELSE tokens

\* _millions_tokens with "if n == 1000000" for "if millions == 1"
_millions_tokens_exact(k) ==
    LET millions == k \div 1000000
        remainder == k % 1000000
        tokens == IF k = 1000000 THEN Ok(<<"um", "milhão">>)
                  ELSE Cat(_generate_tokens(Py(millions)), Ok(<<"milhões">>))
    IN  IF remainder > 0
        THEN IF remainder < 100
             THEN Cat(tokens, Cat(Ok(<<"e">>), _generate_tokens(Py(remainder))))
             ELSE LET remainder_tokens == _generate_tokens(Py(remainder))
                  IN  IF ~remainder_tokens.ok THEN remainder_tokens
                      ELSE IF remainder_tokens.tokens # <<>>
                      THEN Cat(tokens, Cat(Ok(<<"e">>), remainder_tokens))
                      ELSE tokens
        ELSE tokens

_millions_tokens(k) ==
    LET millions == k \div 1000000
        remainder == k % 1000000
        tokens == IF millions = 1 THEN Ok(<<"um", "milhão">>)
                  ELSE Cat(_generate_tokens(Py(millions)), Ok(<<"milhões">>))
    IN  IF remainder > 0
        THEN IF remainder < 100
             THEN Cat(tokens, Cat(Ok(<<"e">>), _generate_tokens(Py(remainder))))
             ELSE LET remainder_tokens == _generate_tokens(Py(remainder))
                  IN  IF ~remainder_tokens.ok THEN remainder_tokens
                      ELSE IF remainder_tokens.tokens # <<>>
                      THEN Cat(tokens, Cat(Ok(<<"e">>), remainder_tokens))
                      ELSE tokens
        ELSE tokens

\* n // 1000000000 is x.hi and n % 1000000000 is x.lo
_billions_tokens(x) ==
    LET billions == x.hi
        remainder == x.lo
        tokens == IF billions = 1 THEN Ok(<<"um", "bilhão">>)
                  ELSE Cat(_generate_tokens(Py(billions)), Ok(<<"bilhões">>))
    IN  IF remainder > 0
        THEN IF remainder < 100
             THEN Cat(tokens, Cat(Ok(<<"e">>), _generate_tokens(Py(remainder))))
             ELSE LET remainder_tokens == _generate_tokens(Py(remainder))
                  IN  IF ~remainder_tokens.ok THEN remainder_tokens
                      ELSE IF remainder_tokens.tokens # <<>>
                      THEN Cat(tokens, Cat(Ok(<<"e">>), remainder_tokens))
                      ELSE tokens
        ELSE tokens

\* _generate_tokens with a digit dropped from the upper end of the billions band
_generate_tokens_short(x) ==
    IF x = Py(0) THEN Ok(<<>>)
    ELSE IF Between(Py(1), x, Py(19)) THEN _units_tokens(x.lo)
    ELSE IF Between(Py(20), x, Py(99)) THEN _tens_tokens(x.lo)
    ELSE IF Between(Py(100), x, Py(199)) THEN _hundreds_tokens(x.lo)
    ELSE IF Between(Py(200), x, Py(999)) THEN _hundreds_tokens(x.lo)
    ELSE IF Between(Py(1000), x, Py(999999)) THEN _thousands_tokens(x.lo)
    ELSE IF Between(Py(1000000), x, Py(999999999)) THEN _millions_tokens(x.lo)
    ELSE IF Between(Wide(1, 0), x, Wide(99, 999999999)) THEN _billions_tokens(x)
    ELSE Raise("ValueError", "too_large")

_generate_tokens(x) ==
    IF x = Py(0) THEN Ok(<<>>)
    ELSE IF Between(Py(1), x, Py(19)) THEN _units_tokens(x.lo)
    ELSE IF Between(Py(20), x, Py(99)) THEN _tens_tokens(x.lo)
    ELSE IF Between(Py(100), x, Py(199)) THEN _hundreds_tokens(x.lo)
    ELSE IF Between(Py(200), x, Py(999)) THEN _hundreds_tokens(x.lo)
    ELSE IF Between(Py(1000), x, Py(999999)) THEN _thousands_tokens(x.lo)
    ELSE IF Between(Py(1000000), x, Py(999999999)) THEN _millions_tokens(x.lo)
    ELSE IF Between(Wide(1, 0), x, Wide(999, 999999999)) THEN _billions_tokens(x)
    ELSE Raise("ValueError", "too_large")

\* text_number with the magnitude examined before the policy
text_number_magnitude_first(x, p) ==
    IF LT(x, Py(0)) THEN Raise("ValueError", "negative")
    ELSE IF LE(Wide(1000, 0), x) THEN Raise("ValueError", "too_large")
    ELSE IF p # "R1" THEN Raise("ValueError", "policy")
    ELSE IF x = Py(0) THEN Ok(<<"zero">>)
    ELSE _generate_tokens(x)

\* text_number with the policy check moved before the sign check
text_number_policy_first(x, p) ==
    IF p # "R1" THEN Raise("ValueError", "policy")
    ELSE IF LT(x, Py(0)) THEN Raise("ValueError", "negative")
    ELSE IF x = Py(0) THEN Ok(<<"zero">>)
    ELSE _generate_tokens(x)

\* text_number without its "if n == 0" case
text_number_no_zero(x, p) ==
    IF LT(x, Py(0)) THEN Raise("ValueError", "negative")
    ELSE IF p # "R1" THEN Raise("ValueError", "policy")
    ELSE _generate_tokens(x)

text_number(x, p) ==
    IF LT(x, Py(0)) THEN Raise("ValueError", "negative")
    ELSE IF p # "R1" THEN Raise("ValueError", "policy")
    ELSE IF x = Py(0) THEN Ok(<<"zero">>)
    ELSE _generate_tokens(x)

---------------------------------------------------------------------------
(* Inputs *)

Policies == {"R1", "R2", ""}

\* the borders of the magnitude bands below 10^9
Borders == {20, 100, 200, 1000, 2000, 100000, 1000000, 2000000, 999999999 - Edge}

\* three-digit groups a number is assembled from
Groups == {0, 1, 21, 100, 101, 999}

\* every hundred with a remainder of each kind
HundredsInputs == {100 * h + r : h \in 1 .. 9, r \in {0, 1, 19, 20, 21, 99}}

SmallInputs ==
    (-MaxNeg .. MaxSmall)
    \cup HundredsInputs
    \cup UNION {(b - Edge) .. (b + Edge) : b \in Borders}
    \cup {g2 * 1000000 + g1 * 1000 + g0 : g2 \in Groups, g1 \in Groups, g0 \in Groups}

WideInputs ==
    {Wide(h, l) : h \in {-1, 1, 2, 21, 100, 101, 999, 1000, MaxHi},
                  l \in {0, 1, 100, 1000, 1001000, 999999999}}

Inputs == {OfInt(k) : k \in SmallInputs} \cup WideInputs

---------------------------------------------------------------------------
(* ptef/combinatorics.py *)

\* a dict of counts is a bag; counts.get(token, 0) is CopiesIn(token, counts)
SeqToBag(s) ==
    [t \in {s[i] : i \in DOMAIN s} |-> Cardinality({i \in DOMAIN s : s[i] = t})]

\* the connective count without its "if token == "e"" test
ConnBag_all(s) == SeqToBag(s)

\* the connectives counted for one token list: the tokens that are "e"
ConnBag(s) == SeqToBag(SelectSeq(s, LAMBDA t : t = "e"))

COk(t, c, p) ==
    [ok |-> TRUE, tokens |-> t, conns |-> c, exc |-> "none", err |-> "none", path |-> p]
CRaise(c, e, p) ==
    [ok |-> FALSE, tokens |-> EmptyBag, conns |-> EmptyBag, exc |-> c, err |-> e, path |-> p]
CPending == CRaise("none", "nocall", "none")

\* The two for loops add the tokens of text_number(n), n = 1, 2, ..., to
\* dicts that start empty, and stop at the first n whose call raises.  The
\* iterations lo .. hi are evaluated as the iterations lo .. mid followed by
\* the iterations mid + 1 .. hi, which keeps the nesting of the evaluation
\* logarithmic in the length of the range.

\* for n in range(1, 1000): tokens = text_number(n); counts[token] += 1
RECURSIVE Loop999(_, _)
Loop999(lo, hi) ==
    IF lo > hi THEN COk(EmptyBag, EmptyBag, "base")
    ELSE IF lo = hi
    THEN LET tokens == text_number(Py(lo), "R1")
         IN  IF ~tokens.ok THEN CRaise(tokens.exc, tokens.err, "base")
             ELSE COk(SeqToBag(tokens.tokens), EmptyBag, "base")
    ELSE LET mid == (lo + hi) \div 2
             first == Loop999(lo, mid)
             rest == Loop999(mid + 1, hi)
         IN  IF ~first.ok THEN first
             ELSE IF ~rest.ok THEN rest
             ELSE COk(first.tokens (+) rest.tokens, EmptyBag, "base")

\* count_tokens_up_to_999 with range(1, 1001) for range(1, 1000)
count_tokens_up_to_1000 == Loop999(1, 1000)

\* count_tokens_up_to_999 handing out one table, built by the first call, to
\* every caller (the dict object the first caller holds)
count_tokens_up_to_999_shared ==
    IF base999 = CPending THEN Loop999(1, 1000 - 1) ELSE COk(held, EmptyBag, "base")

count_tokens_up_to_999 == Loop999(1, 1000 - 1)

\* for n in range(1, N + 1): token_counts[token] += 1, and
\* connective_counts["e"] += 1 if token == "e"
RECURSIVE DirectLoop(_, _)
DirectLoop(lo, hi) ==
    IF lo > hi THEN COk(EmptyBag, EmptyBag, "direct")
    ELSE IF lo = hi
    THEN LET tokens == text_number(Py(lo), "R1")
         IN  IF ~tokens.ok THEN CRaise(tokens.exc, tokens.err, "direct")
             ELSE COk(SeqToBag(tokens.tokens), ConnBag(tokens.tokens), "direct")
    ELSE LET mid == (lo + hi) \div 2
             first == DirectLoop(lo, mid)
             rest == DirectLoop(mid + 1, hi)
         IN  IF ~first.ok THEN first
             ELSE IF ~rest.ok THEN rest
             ELSE COk(first.tokens (+) rest.tokens, first.conns (+) rest.conns, "direct")

\* _count_direct with range(1, N) for range(1, N + 1)
_count_direct_short(k) == DirectLoop(1, k - 1)

_count_direct(k) == DirectLoop(1, k)

\* base_tokens, base_connectives = count_tokens_up_to_999() unpacks the keys
\* of the returned dict into two names: it raises unless the dict has exactly
\* two keys, and then both names are strings, which have no copy()
_count_blocks(x) ==
    LET base == count_tokens_up_to_999
    IN  IF ~base.ok THEN CRaise(base.exc, base.err, "blocks")
        ELSE IF Cardinality(BagToSet(base.tokens)) # 2
        THEN CRaise("ValueError", "unpack", "blocks")
        ELSE CRaise("AttributeError", "copy", "blocks")

\* count_tokens_up_to_N with "N <= 999" for "N <= 1000"
count_tokens_up_to_N_below_1000(x, p) ==
    IF p # "R1" THEN CRaise("ValueError", "policy", "none")
    ELSE IF LE(x, Py(0)) THEN COk(EmptyBag, EmptyBag, "none")
    ELSE IF LE(x, Py(999)) THEN _count_direct(x.lo)
    ELSE _count_blocks(x)

\* count_tokens_up_to_N with the "N <= 0" shortcut moved before the policy check
count_tokens_up_to_N_shortcut_first(x, p) ==
    IF LE(x, Py(0)) THEN COk(EmptyBag, EmptyBag, "none")
    ELSE IF p # "R1" THEN CRaise("ValueError", "policy", "none")
    ELSE IF LE(x, Py(1000)) THEN _count_direct(x.lo)
    ELSE _count_blocks(x)

count_tokens_up_to_N(x, p) ==
    IF p # "R1" THEN CRaise("ValueError", "policy", "none")
    ELSE IF LE(x, Py(0)) THEN COk(EmptyBag, EmptyBag, "none")
    ELSE IF LE(x, Py(1000)) THEN _count_direct(x.lo)
    ELSE _count_blocks(x)

NumOk(v) == [ok |-> TRUE, value |-> v, exc |-> "none", err |-> "none"]
NumRaise(c, e) == [ok |-> FALSE, value |-> 0, exc |-> c, err |-> e]

\* sum(connective_counts.values())
count_connectives_up_to_N(x, p) ==
    LET c == count_tokens_up_to_N(x, p)
    IN  IF ~c.ok THEN NumRaise(c.exc, c.err) ELSE NumOk(BagCardinality(c.conns))

\* total_syllables += syllables(token) * count, a token that is not in the
\* lexicon (KeyError) being skipped; lexicon is what load_lexicon() returns
count_syllables_up_to_N(x, p, lexicon) ==
    LET c == count_tokens_up_to_N(x, p)
        known == BagToSet(c.tokens) \cap DOMAIN lexicon
    IN  IF ~c.ok THEN NumRaise(c.exc, c.err)
        ELSE NumOk(BagCardinality(
                 [t \in {u \in known : lexicon[u] > 0} |-> lexicon[t] * c.tokens[t]]))

---------------------------------------------------------------------------
(* ptef/lexicon.py *)

\* the table of the "except FileNotFoundError" branch
FallbackLexicon ==
    "um" :> 1 @@ "dois" :> 1 @@ "três" :> 1 @@ "quatro" :> 2 @@ "cinco" :> 2 @@
    "seis" :> 1 @@ "sete" :> 2 @@ "oito" :> 2 @@ "nove" :> 2 @@ "dez" :> 1 @@
    "onze" :> 2 @@ "doze" :> 2 @@ "treze" :> 2 @@ "quatorze" :> 3 @@ "quinze" :> 2 @@
    "dezesseis" :> 4 @@ "dezessete" :> 4 @@ "dezoito" :> 3 @@ "dezenove" :> 4 @@
    "vinte" :> 2 @@ "trinta" :> 2 @@ "quarenta" :> 3 @@ "cinquenta" :> 3 @@
    "sessenta" :> 3 @@ "setenta" :> 3 @@ "oitenta" :> 3 @@ "noventa" :> 3 @@
    "cem" :> 1 @@ "cento" :> 2 @@ "duzentos" :> 3 @@ "trezentos" :> 3 @@
    "quatrocentos" :> 4 @@ "quinhentos" :> 3 @@ "seiscentos" :> 3 @@
    "setecentos" :> 4 @@ "oitocentos" :> 4 @@ "novecentos" :> 4 @@
    "mil" :> 1 @@ "milhão" :> 2 @@ "milhões" :> 2 @@ "e" :> 1

\* the table read from data/lexicon/bp_number_tokens_syllables.csv: a data
\* file, which is to hold every token the grammar can emit
CsvLexicon ==
    FallbackLexicon @@ "zero" :> 2 @@ "bilhão" :> 2 @@ "bilhões" :> 2

EmptyLexicon == [t \in {} |-> 0]

\* load_lexicon(): the globals after the call; the call returns .lexicon
load_lexicon(lexicon, loaded, found) ==
    IF loaded THEN [lexicon |-> lexicon, loaded |-> loaded]
    ELSE IF found THEN [lexicon |-> CsvLexicon, loaded |-> TRUE]
    ELSE [lexicon |-> FallbackLexicon, loaded |-> TRUE]

SylOk(t, v) == [called |-> TRUE, token |-> t, ok |-> TRUE, value |-> v, exc |-> "none"]
SylRaise(t, c) == [called |-> TRUE, token |-> t, ok |-> FALSE, value |-> 0, exc |-> c]
SylPending == [called |-> FALSE, token |-> "", ok |-> FALSE, value |-> 0, exc |-> "none"]

\* syllables with lexicon.get(token, 0) for the membership test and the raise
syllables_default(lexicon, token) ==
    IF token \notin DOMAIN lexicon THEN SylOk(token, 0)
    ELSE SylOk(token, lexicon[token])

\* syllables(token), given the lexicon load_lexicon() returned
syllables(lexicon, token) ==
    IF token \notin DOMAIN lexicon THEN SylRaise(token, "KeyError")
    ELSE SylOk(token, lexicon[token])

\* get_available_tokens(), given the lexicon load_lexicon() returned
get_available_tokens(lexicon) == DOMAIN lexicon

\* validate_tokens(tokens), given the lexicon load_lexicon() returned
validate_tokens(lexicon, tokens) ==
    LET available == get_available_tokens(lexicon)
    IN  [token \in tokens |-> token \in available]

ValidPending == [called |-> FALSE, arg |-> {}, map |-> [t \in {} |-> FALSE]]

\* load_lexicon statement by statement, as concurrent callers run it.  The
\* labels are the statements that read or write the globals:
\*   "test"    if _loaded:
\*   "cached"  return _lexicon          (inside the if)
\*   "read"    df = pd.read_csv(lexicon_path)
\*   "assign"  _lexicon = ...           (try branch or except branch)
\*   "flag"    _loaded = True
\*   "return"  return _lexicon          (last statement)
Threads == 1 .. MaxThreads

NoReturn == [returned |-> FALSE, lexicon |-> EmptyLexicon, at |-> "none"]

\* the statements after the read, with "_loaded = True" before "_lexicon = ..."
after_flag_first(label) ==
    CASE label = "read" -> "flag"
      [] label = "flag" -> "assign"
      [] label = "assign" -> "return"
      [] label = "cached" -> "done"
      [] label = "return" -> "done"

\* the statement that follows a statement of load_lexicon
after(label) ==
    CASE label = "read" -> "assign"
      [] label = "assign" -> "flag"
      [] label = "flag" -> "return"
      [] label = "cached" -> "done"
      [] label = "return" -> "done"

---------------------------------------------------------------------------
(* ptef/pauses.py *)

\* a probability of PauseParams, num / den
Prob(num, den) == [num |-> num, den |-> den]

\* PauseParams(): weak_pause_prob = 0.3, strong_pause_prob = 0.1,
\* structural_pause_prob = 0.5
PauseParams ==
    [weak_pause_prob |-> Prob(3, 10), strong_pause_prob |-> Prob(1, 10),
     structural_pause_prob |-> Prob(1, 2)]

\* create_pause_params(weak_pause_prob=1.0, strong_pause_prob=1.0,
\* structural_pause_prob=1.0)
CertainParams ==
    [weak_pause_prob |-> Prob(1, 1), strong_pause_prob |-> Prob(1, 1),
     structural_pause_prob |-> Prob(1, 1)]

\* int(count * prob): int() cuts the product off towards zero
IntTimes(count, prob) ==
    LET product == count * prob.num
    IN  IF product >= 0 THEN product \div prob.den ELSE -((-product) \div prob.den)

\* the list as pauses.py holds it: its second and third strings are not the
\* grammar's "milhão" and "milhões" but have the single character U+CC3E,
\* U+CC9C where those have "ã", "õ" (written here as Python's ascii() does)
strong_boundary_tokens == <<"mil", "milh\\ucc3eo", "milh\\ucc9ces">>

NoPauses == [weak_pauses |-> 0, strong_pauses |-> 0, structural_pauses |-> 0]

RECURSIVE StrongLoop(_, _, _)
StrongLoop(i, token_counts, params) ==
    IF i > Len(strong_boundary_tokens) THEN 0
    ELSE LET token == strong_boundary_tokens[i]
         IN  (IF BagIn(token, token_counts)
              THEN IntTimes(token_counts[token], params.strong_pause_prob)
              ELSE 0) + StrongLoop(i + 1, token_counts, params)

count_pauses(token_counts, B, structural, params) ==
    LET total_tokens == BagCardinality(token_counts)
        num_blocks == (total_tokens + B - 1) \div B
    IN  [weak_pauses |->
            IF BagIn("e", token_counts)
            THEN IntTimes(token_counts["e"], params.weak_pause_prob) ELSE 0,
         strong_pauses |-> StrongLoop(1, token_counts, params),
         structural_pauses |->
            IF structural
            THEN IntTimes(num_blocks - 1, params.structural_pause_prob) ELSE 0]

PausePending ==
    [called |-> FALSE, token_counts |-> EmptyBag, B |-> 16, structural |-> TRUE,
     params |-> PauseParams, counts |-> NoPauses]

---------------------------------------------------------------------------
(* Inputs of the counting *)

CountSmallInputs ==
    (-MaxNeg .. MaxCount) \cup {50, 100, 999, 1000, 1001, 2001, 1000000, 2000000}

CountInputs ==
    {OfInt(k) : k \in CountSmallInputs} \cup {Wide(1, 0), Wide(999, 999999999)}

---------------------------------------------------------------------------
(* The calls *)

Range(s) == {s[i] : i \in DOMAIN s}

\* text_number and count_tokens_up_to_N are pure functions: a behaviour draws
\* the arguments and then makes the calls

Init ==
    /\ op = "none"
    /\ n \in Inputs
    /\ policy \in Policies
    /\ result = Pending
    /\ N \in CountInputs
    /\ cpolicy \in Policies
    /\ counts = CPending
    /\ prevN = Py(0)
    /\ prevCounts = CPending
    /\ base999 = CPending
    /\ _lexicon = EmptyLexicon
    /\ _loaded = FALSE
    /\ file_found \in BOOLEAN
    /\ syl = SylPending
    /\ valid = ValidPending
    /\ held = EmptyBag
    /\ base999_again = CPending
    /\ n2 = Py(0)
    /\ result2 = Pending
    /\ pc = [t \in Threads |-> "idle"]
    /\ ret = [t \in Threads |-> NoReturn]
    /\ pause = PausePending

GrammarInit == Init /\ N = Py(0) /\ cpolicy = "R1" /\ file_found = FALSE

CountInit == Init /\ n = Py(0) /\ policy = "R1" /\ file_found = FALSE

\* numbers that between them use every word of the grammar
LexSmallInputs ==
    (0 .. MaxLex) \cup {10 * d : d \in 2 .. 9} \cup {100 * d : d \in 1 .. 9}
    \cup {101, 1000, 1000000, 2000000}

LexInputs == {OfInt(k) : k \in LexSmallInputs} \cup {Wide(1, 0), Wide(2, 0)}

LexInit == Init /\ n \in LexInputs /\ policy = "R1" /\ N = Py(0) /\ cpolicy = "R1"

\* both functions, each at the ends of its domain
EndInputs == {OfInt(-1), Py(0), Py(1), Wide(999, 999999999), Wide(1000, 0)}
EndCountInputs == {OfInt(-1), Py(0), Py(1), Py(1000), Py(1001)}

SpecInit == Init /\ n \in EndInputs /\ N \in EndCountInputs /\ file_found = FALSE

CallTextNumber ==
    /\ result = Pending
    /\ op' = "text_number"
    /\ result' = text_number(n, policy)
    /\ UNCHANGED <<n, policy, countVars, lexVars, tableVars, pairVars, threadVars, pause>>

CallCountTokens ==
    /\ counts = CPending
    /\ op' = "count_tokens_up_to_N"
    /\ counts' = count_tokens_up_to_N(N, cpolicy)
    /\ UNCHANGED <<grammarVars, N, cpolicy, prevN, prevCounts, base999, lexVars,
                   tableVars, pairVars, threadVars, pause>>

\* a second call, with a larger N and the same policy
CallCountTokensAgain ==
    /\ counts # CPending
    /\ prevCounts = CPending
    /\ \E x \in CountInputs :
        /\ LT(N, x)
        /\ N' = x
        /\ counts' = count_tokens_up_to_N(x, cpolicy)
    /\ prevN' = N
    /\ prevCounts' = counts
    /\ op' = "count_tokens_up_to_N"
    /\ UNCHANGED <<grammarVars, cpolicy, base999, lexVars,
                   tableVars, pairVars, threadVars, pause>>

CallCountTokens999 ==
    /\ base999 = CPending
    /\ op' = "count_tokens_up_to_999"
    /\ base999' = count_tokens_up_to_999
    /\ held' = base999'.tokens
    /\ UNCHANGED <<grammarVars, N, cpolicy, counts, prevN, prevCounts, lexVars,
                   base999_again, pairVars, threadVars, pause>>

CallLoadLexicon ==
    LET loaded == load_lexicon(_lexicon, _loaded, file_found)
    IN  /\ op' = "load_lexicon"
        /\ _lexicon' = loaded.lexicon
        /\ _loaded' = loaded.loaded
        /\ UNCHANGED <<grammarVars, countVars, file_found, syl, valid,
                       tableVars, pairVars, threadVars, pause>>

\* syllables(token): lexicon = load_lexicon(), then the lookup
CallSyllables ==
    \E token \in Range(result.tokens) \cup {"unknown_token"} :
        LET loaded == load_lexicon(_lexicon, _loaded, file_found)
        IN  /\ op' = "syllables"
            /\ _lexicon' = loaded.lexicon
            /\ _loaded' = loaded.loaded
            /\ syl' = syllables(loaded.lexicon, token)
            /\ UNCHANGED <<grammarVars, countVars, file_found, valid,
                           tableVars, pairVars, threadVars, pause>>

\* validate_tokens(tokens): get_available_tokens() calls load_lexicon()
CallValidateTokens ==
    \E tokens \in {Range(result.tokens), Range(result.tokens) \cup {"unknown_token"},
                    {"um", "unknown_token", "e"}, {}} :
        LET loaded == load_lexicon(_lexicon, _loaded, file_found)
        IN  /\ op' = "validate_tokens"
            /\ _lexicon' = loaded.lexicon
            /\ _loaded' = loaded.loaded
            /\ valid' = [called |-> TRUE, arg |-> tokens,
                         map |-> validate_tokens(loaded.lexicon, tokens)]
            /\ UNCHANGED <<grammarVars, countVars, file_found, syl,
                           tableVars, pairVars, threadVars, pause>>

GrammarNext == CallTextNumber

CountNext == CallCountTokens \/ CallCountTokensAgain \/ CallCountTokens999

LexNext == CallTextNumber \/ CallLoadLexicon \/ CallSyllables \/ CallValidateTokens

Next == CallTextNumber \/ CallCountTokens \/ CallCountTokensAgain

GrammarSpec == GrammarInit /\ [][GrammarNext]_vars

CountSpec == CountInit /\ [][CountNext]_vars

LexSpec == LexInit /\ [][LexNext]_vars

Spec == SpecInit /\ [][Next]_vars

---------------------------------------------------------------------------
(* The base table and its callers *)

TableInit ==
    /\ n = Py(0) /\ policy = "R1" /\ file_found = FALSE
    /\ N \in EndCountInputs
    /\ Init

\* the caller changes the dict it got from count_tokens_up_to_999: a new key,
\* a larger count, a key deleted
CallerChangesTable ==
    /\ base999 # CPending
    /\ base999_again = CPending
    /\ held = base999.tokens
    /\ held' \in {held (+) SetToBag({"mil"}), held (+) SetToBag({"um"}),
                  [t \in DOMAIN held \ {"e"} |-> held[t]]}
    /\ op' = "caller"
    /\ UNCHANGED <<grammarVars, countVars, lexVars, base999_again,
                   pairVars, threadVars, pause>>

CallCountTokens999Again ==
    /\ base999 # CPending
    /\ base999_again = CPending
    /\ op' = "count_tokens_up_to_999"
    /\ base999_again' = count_tokens_up_to_999
    /\ UNCHANGED <<grammarVars, countVars, lexVars, held, pairVars, threadVars, pause>>

TableNext ==
    \/ CallCountTokens
    \/ CallCountTokens999
    \/ CallerChangesTable
    \/ CallCountTokens999Again

TableSpec == TableInit /\ [][TableNext]_vars

---------------------------------------------------------------------------
(* Two calls of text_number *)

PairInit ==
    /\ policy = "R1" /\ N = Py(0) /\ cpolicy = "R1" /\ file_found = FALSE
    /\ Init

CallTextNumberOther ==
    /\ result # Pending
    /\ result2 = Pending
    /\ \E x \in Inputs :
        /\ n2' = x
        /\ result2' = text_number(x, policy)
    /\ op' = "text_number"
    /\ UNCHANGED <<grammarVars, countVars, lexVars, tableVars, threadVars, pause>>

PairNext == CallTextNumber \/ CallTextNumberOther

PairSpec == PairInit /\ [][PairNext]_vars

---------------------------------------------------------------------------
(* Concurrent callers of load_lexicon *)

LoadInit ==
    /\ n = Py(0) /\ policy = "R1" /\ N = Py(0) /\ cpolicy = "R1"
    /\ Init

threadFrame ==
    <<op, grammarVars, countVars, syl, valid, file_found, tableVars, pairVars, pause>>

\* a thread calls load_lexicon()
BeginLoad(t) ==
    /\ pc[t] = "idle"
    /\ pc' = [pc EXCEPT ![t] = "test"]
    /\ UNCHANGED <<threadFrame, _lexicon, _loaded, ret>>

\* if _loaded:
TestLoaded(t) ==
    /\ pc[t] = "test"
    /\ pc' = [pc EXCEPT ![t] = IF _loaded THEN "cached" ELSE "read"]
    /\ UNCHANGED <<threadFrame, _lexicon, _loaded, ret>>

\* df = pd.read_csv(lexicon_path), which returns or raises FileNotFoundError
ReadCsv(t) ==
    /\ pc[t] = "read"
    /\ pc' = [pc EXCEPT ![t] = after("read")]
    /\ UNCHANGED <<threadFrame, _lexicon, _loaded, ret>>

\* _lexicon = dict(zip(...)) in the try branch, _lexicon = {...} in the except
\* branch: the dict is built first and the global is bound to it in one store
AssignLexicon(t) ==
    /\ pc[t] = "assign"
    /\ _lexicon' = IF file_found THEN CsvLexicon ELSE FallbackLexicon
    /\ pc' = [pc EXCEPT ![t] = after("assign")]
    /\ UNCHANGED <<threadFrame, _loaded, ret>>

\* _loaded = True
SetLoaded(t) ==
    /\ pc[t] = "flag"
    /\ _loaded' = TRUE
    /\ pc' = [pc EXCEPT ![t] = after("flag")]
    /\ UNCHANGED <<threadFrame, _lexicon, ret>>

\* return _lexicon, from inside "if _loaded" or as the last statement
ReturnLexicon(t) ==
    /\ pc[t] \in {"cached", "return"}
    /\ ret' = [ret EXCEPT ![t] = [returned |-> TRUE, lexicon |-> _lexicon, at |-> pc[t]]]
    /\ pc' = [pc EXCEPT ![t] = after(pc[t])]
    /\ UNCHANGED <<threadFrame, _lexicon, _loaded>>

LoadNext ==
    \E t \in Threads :
        \/ BeginLoad(t)
        \/ TestLoaded(t)
        \/ ReadCsv(t)
        \/ AssignLexicon(t)
        \/ SetLoaded(t)
        \/ ReturnLexicon(t)

LoadSpec == LoadInit /\ [][LoadNext]_vars

---------------------------------------------------------------------------
(* count_pauses on the tokens of a number *)

PauseSmallInputs == {0, 1, 21, 100, 101, 999, 1000, 1001, 1021, 1000000, 2000000}

PauseInputs == {OfInt(k) : k \in PauseSmallInputs} \cup {Wide(1, 0), Wide(2, 0)}

PauseInit ==
    /\ n \in PauseInputs
    /\ policy = "R1" /\ N = Py(0) /\ cpolicy = "R1" /\ file_found = FALSE
    /\ Init

\* the token map in which every token of a list is counted k times
Repeated(k, tokens) ==
    LET once == SeqToBag(tokens)
    IN  IF k = 0 THEN EmptyBag ELSE [t \in DOMAIN once |-> k * once[t]]

\* count_pauses(token_counts, B, structural, params)
CallCountPauses ==
    /\ result.ok
    /\ ~pause.called
    /\ \E k \in 0 .. MaxRepeat, B \in {1, 16}, structural \in BOOLEAN,
          params \in {PauseParams, CertainParams} :
        LET token_counts == Repeated(k, result.tokens)
        IN  pause' = [called |-> TRUE, token_counts |-> token_counts, B |-> B,
                      structural |-> structural, params |-> params,
                      counts |-> count_pauses(token_counts, B, structural, params)]
    /\ op' = "count_pauses"
    /\ UNCHANGED <<grammarVars, countVars, lexVars, tableVars, pairVars, threadVars>>

PauseNext == CallTextNumber \/ CallCountPauses

PauseSpec == PauseInit /\ [][PauseNext]_vars

---------------------------------------------------------------------------
(* Properties *)

Called == result # Pending
Counted == counts # CPending

\* the largest n text_number has words for, 999 999 999 999
MaxNumber == Wide(999, 999999999)

\* brute enumeration (cli.py validate, test_count_tokens_consistency): the
\* occurrences of every token in text_number(n), summed over n in a .. b
RECURSIVE Enumerate(_, _)
Enumerate(a, b) ==
    IF a > b THEN EmptyBag
    ELSE IF a = b THEN SeqToBag(text_number(Py(a), "R1").tokens)
    ELSE LET mid == (a + b) \div 2
         IN  Enumerate(a, mid) (+) Enumerate(mid + 1, b)

\* two token maps agree key by key, a missing key counting as 0
SameMap(f, g) ==
    \A t \in BagToSet(f) \cup BagToSet(g) : CopiesIn(t, f) = CopiesIn(t, g)

\* C1: for every N >= 1 the token map of count_tokens_up_to_N(N, "R1") equals,
\* key by key, the brute enumeration of text_number(n) over n in [1, N]
C1_Consistency ==
    (Counted /\ cpolicy = "R1" /\ LE(Py(1), N) /\ N.hi = 0)
        => (counts.ok /\ SameMap(counts.tokens, Enumerate(1, N.lo)))

\* C2: count_tokens_up_to_N(N, "R1") returns a pair of maps for every
\* 1 <= N < 10^12, and the operation fails with the policy error only
C2_NoError ==
    (Counted /\ LE(Py(1), N) /\ LE(N, MaxNumber))
        => /\ (cpolicy = "R1") => counts.ok
           /\ (~counts.ok) => counts.err = "policy"

\* C3: range additivity: for 0 < A < B the token map for B is the key-wise sum
\* of the token map for A and the tokens of text_number(n), n in [A+1, B]
C3_Additivity ==
    (prevCounts # CPending /\ cpolicy = "R1"
        /\ LT(Py(0), prevN) /\ LT(prevN, N) /\ N.hi = 0)
        => /\ prevCounts.ok
           /\ counts.ok
           /\ SameMap(counts.tokens,
                      prevCounts.tokens (+) Enumerate(prevN.lo + 1, N.lo))

\* the lengths of text_number(n) summed over n in a .. b
RECURSIVE SumLen(_, _)
SumLen(a, b) ==
    IF a > b THEN 0
    ELSE IF a = b THEN Len(text_number(Py(a), "R1").tokens)
    ELSE LET mid == (a + b) \div 2
         IN  SumLen(a, mid) + SumLen(mid + 1, b)

\* C4: for every N >= 1 the values of the token map of count_tokens_up_to_N(N)
\* add up to the sum of the lengths of text_number(n) over n in [1, N]
C4_TotalTokens ==
    (Counted /\ cpolicy = "R1" /\ LE(Py(1), N) /\ N.hi = 0)
        => (counts.ok /\ BagCardinality(counts.tokens) = SumLen(1, N.lo))

\* C5: text_number(n, policy) fails with the negative-number error for every
\* n < 0, whatever the policy, and returns no tokens
C5_NegativeFails ==
    (Called /\ LT(n, Py(0)))
        => (~result.ok /\ result.err = "negative" /\ result.tokens = <<>>)

C5_Witness ==
    Called /\ n = OfInt(-1) /\ policy = "R2" /\ result.err = "negative"

\* C6: text_number (for n >= 0) and count_tokens_up_to_N (for every N, N <= 0
\* included) fail with the policy error exactly when policy != "R1"
C6_PolicyError ==
    /\ (Called /\ LE(Py(0), n))
        => ((policy # "R1") <=> (~result.ok /\ result.err = "policy"))
    /\ Counted
        => ((cpolicy # "R1") <=> (~counts.ok /\ counts.err = "policy"))

C6_Witness ==
    /\ Called /\ n = Py(0) /\ policy = "R2" /\ result.err = "policy"
    /\ Counted /\ N = Py(0) /\ cpolicy = "R2" /\ counts.err = "policy"

\* C7: text_number(n, "R1") returns tokens for every 0 <= n <= 999 999 999 999
\* and fails with the too-large error for every n >= 10^12
C7_Range ==
    (Called /\ policy = "R1" /\ LE(Py(0), n))
        => IF LE(n, MaxNumber)
           THEN result.ok
           ELSE ~result.ok /\ result.err = "too_large" /\ result.tokens = <<>>

C7_Witness ==
    Called /\ policy = "R1" /\ n = Wide(1000, 0) /\ result.err = "too_large"

\* C8: for 0 <= n < 10^12 text_number(n) is a non-empty list; it is ["zero"]
\* for n = 0 and holds no "zero" for n >= 1
C8_NonEmptyZero ==
    (Called /\ policy = "R1" /\ Between(Py(0), n, MaxNumber))
        => /\ result.ok
           /\ Len(result.tokens) >= 1
           /\ (n = Py(0)) => result.tokens = <<"zero">>
           /\ LE(Py(1), n) => "zero" \notin Range(result.tokens)

C8_Witness ==
    Called /\ policy = "R1" /\ n = Py(0) /\ result.tokens = <<"zero">>

\* C9: for 0 <= n < 10^12 the token "e" is neither the first nor the last
\* token of text_number(n)
C9_ConnectiveInterior ==
    (Called /\ result.ok)
        => /\ result.tokens # <<>>
           /\ result.tokens[1] # "e"
           /\ result.tokens[Len(result.tokens)] # "e"

C9_Witness ==
    Called /\ n = Py(1021) /\ result.tokens = <<"mil", "e", "vinte", "e", "um">>

\* C10: count_tokens_up_to_N(N, "R1") returns two empty maps for every N <= 0,
\* and for N = 1 the token map {"um": 1} and an empty connective map
C10_EdgeCounts ==
    (Counted /\ cpolicy = "R1")
        => /\ LE(N, Py(0))
                => (counts.ok /\ counts.tokens = EmptyBag /\ counts.conns = EmptyBag)
           /\ (N = Py(1))
                => (counts.ok /\ counts.tokens = SetToBag({"um"})
                              /\ counts.conns = EmptyBag)

C10_Witness ==
    Counted /\ cpolicy = "R1" /\ N = Py(1) /\ CopiesIn("um", counts.tokens) = 1

\* C11: every token text_number emits for 0 <= n < 10^12 is a key of the
\* lexicon load_lexicon returns, with a positive syllable count, and
\* syllables(token) raises no KeyError on an emitted token
C11_Coverage ==
    /\ (Called /\ result.ok /\ _loaded)
        => \A t \in Range(result.tokens) : t \in DOMAIN _lexicon /\ _lexicon[t] > 0
    /\ (Called /\ syl.called /\ syl.token \in Range(result.tokens))
        => (syl.ok /\ syl.value > 0)

\* the tokens of text_number(k) for a plain k >= 0
Words(k) == text_number(Py(k), "R1").tokens

\* C12: for n in [1000, 999 999], k = n div 1000, r = n mod 1000, text_number(n)
\* is ["mil"] if k = 1 and text_number(k) + ["mil"] otherwise, followed, if and
\* only if r > 0, by "e" and text_number(r), whatever the size of r
C12_Thousands ==
    (Called /\ policy = "R1" /\ Between(Py(1000), n, Py(999999)))
        => LET k == n.lo \div 1000
               r == n.lo % 1000
               head == IF k = 1 THEN <<"mil">> ELSE Words(k) \o <<"mil">>
               tail == IF r > 0 THEN <<"e">> \o Words(r) ELSE <<>>
           IN  /\ result.ok
               /\ result.tokens = head \o tail
               /\ (k = 1) => result.tokens[1] = "mil"

C12_Witness ==
    Called /\ n = Py(1100) /\ result.tokens = <<"mil", "e", "cem">>

\* C13: for the million scale (and the billion scale), m = n div S, r = n mod S,
\* text_number(n) is ["um", singular] if m = 1 and text_number(m) + [plural]
\* otherwise, followed, if and only if r > 0, by "e" and text_number(r)
C13_Scales ==
    /\ (Called /\ policy = "R1" /\ Between(Py(1000000), n, Py(999999999)))
        => LET m == n.lo \div 1000000
               r == n.lo % 1000000
               head == IF m = 1 THEN <<"um", "milhão">> ELSE Words(m) \o <<"milhões">>
               tail == IF r > 0 THEN <<"e">> \o Words(r) ELSE <<>>
           IN  result.ok /\ result.tokens = head \o tail
    /\ (Called /\ policy = "R1" /\ Between(Wide(1, 0), n, MaxNumber))
        => LET m == n.hi
               r == n.lo
               head == IF m = 1 THEN <<"um", "bilhão">> ELSE Words(m) \o <<"bilhões">>
               tail == IF r > 0 THEN <<"e">> \o Words(r) ELSE <<>>
           IN  result.ok /\ result.tokens = head \o tail

C13_Witness ==
    Called /\ n = Py(1000001) /\ result.tokens = <<"um", "milhão", "e", "um">>

\* C14: for n in [100, 999], h = n div 100, r = n mod 100: text_number(100) is
\* ["cem"]; otherwise the first token is "cento" for h = 1 and the h-th
\* hundreds word for h >= 2, followed, if and only if r > 0, by "e" and
\* text_number(r); text_number(999) is novecentos e noventa e nove
C14_Hundreds ==
    (Called /\ policy = "R1" /\ Between(Py(100), n, Py(999)))
        => LET h == n.lo \div 100
               r == n.lo % 100
               word == <<"cento", "duzentos", "trezentos", "quatrocentos", "quinhentos",
                         "seiscentos", "setecentos", "oitocentos", "novecentos">>[h]
               tail == IF r > 0 THEN <<"e">> \o Words(r) ELSE <<>>
           IN  /\ result.ok
               /\ IF n = Py(100) THEN result.tokens = <<"cem">>
                  ELSE result.tokens = <<word>> \o tail
               /\ (n = Py(999))
                    => result.tokens = <<"novecentos", "e", "noventa", "e", "nove">>

C14_Witness ==
    Called /\ n = Py(999) /\ result.ok /\ Len(result.tokens) = 5

\* C15: for n in [1, 19] text_number(n) is one word of the unit table (19
\* pairwise distinct words, none of them "e"); for n in [20, 99] it is the tens
\* word of n div 10 followed, if and only if n mod 10 > 0, by "e" and the unit
\* word of n mod 10
C15_UnitsTens ==
    /\ \A i, j \in 2 .. 20 : units[i] \notin {"", "e"} /\ (i # j => units[i] # units[j])
    /\ (Called /\ policy = "R1" /\ Between(Py(1), n, Py(19)))
        => (result.ok /\ result.tokens = <<units[n.lo + 1]>>)
    /\ (Called /\ policy = "R1" /\ Between(Py(20), n, Py(99)))
        => LET word == <<"vinte", "trinta", "quarenta", "cinquenta", "sessenta",
                         "setenta", "oitenta", "noventa">>[(n.lo \div 10) - 1]
               u == n.lo % 10
           IN  /\ result.ok
               /\ result.tokens = IF u > 0 THEN <<word, "e", units[u + 1]>> ELSE <<word>>
               /\ Len(result.tokens) \in {1, 3}

C15_Witness ==
    Called /\ n = Py(21) /\ result.tokens = <<"vinte", "e", "um">>

\* C16: text_number(n) never holds two adjacent "e" tokens: every "e" is
\* followed by a token that is not "e"
C16_NoDoubleConnective ==
    (Called /\ result.ok)
        => \A i \in DOMAIN result.tokens :
               result.tokens[i] = "e"
                 => (i < Len(result.tokens) /\ result.tokens[i + 1] # "e")

C16_Witness ==
    /\ Called /\ n = Py(101021)
    /\ result.tokens = <<"cento", "e", "um", "mil", "e", "vinte", "e", "um">>

Called999 == base999 # CPending

C19_Growth ==
    (prevCounts # CPending /\ cpolicy = "R1" /\ LE(Py(1), prevN) /\ LT(prevN, N))
        => /\ prevCounts.ok
           /\ counts.ok
           /\ BagCardinality(counts.tokens) > BagCardinality(prevCounts.tokens)
           /\ LET cA == count_connectives_up_to_N(prevN, cpolicy)
                  cB == count_connectives_up_to_N(N, cpolicy)
              IN  cA.ok /\ cB.ok /\ cB.value >= cA.value
           /\ \A found \in BOOLEAN :
                LET lexicon == load_lexicon(EmptyLexicon, FALSE, found).lexicon
                    sA == count_syllables_up_to_N(prevN, cpolicy, lexicon)
                    sB == count_syllables_up_to_N(N, cpolicy, lexicon)
                IN  sA.ok /\ sB.ok /\ sB.value > sA.value

\* C20: syllables(token) returns the lexicon's count for a token of the lexicon
\* and raises KeyError for any other token; validate_tokens(S) returns a map
\* with the keys S whose value tells whether the token is in the lexicon;
\* neither changes a loaded lexicon
C20_Lookup ==
    [][ /\ (op' = "syllables")
            => /\ IF syl'.token \in DOMAIN _lexicon'
                  THEN syl'.ok /\ syl'.value = _lexicon'[syl'.token]
                  ELSE ~syl'.ok /\ syl'.exc = "KeyError"
               /\ _loaded => _lexicon' = _lexicon
        /\ (op' = "validate_tokens")
            => /\ DOMAIN valid'.map = valid'.arg
               /\ \A t \in valid'.arg : valid'.map[t] <=> (t \in DOMAIN _lexicon')
               /\ _loaded => _lexicon' = _lexicon
      ]_vars

C20_Witness ==
    /\ syl.called /\ syl.token = "unknown_token" /\ syl.exc = "KeyError"
    /\ valid.called /\ valid.arg = {"um", "unknown_token", "e"}
    /\ valid.map["um"] /\ ~valid.map["unknown_token"]

\* C21 as stated: count_tokens_up_to_N(N, "R1") enumerates directly exactly
\* when 1 <= N <= 999 and goes to the block decomposition for every N >= 1000
C21_DirectBelow1000 ==
    (Counted /\ cpolicy = "R1" /\ LE(Py(1), N))
        => /\ (counts.path = "direct") <=> LE(N, Py(999))
           /\ LE(Py(1000), N) => counts.path = "blocks"

\* C21: count_tokens_up_to_N(N, "R1") enumerates directly exactly when
\* 1 <= N <= 1000, N = 1000 included, and enters _count_blocks for every
\* N >= 1001
C21_DirectUpTo1000 ==
    (Counted /\ cpolicy = "R1" /\ LE(Py(1), N))
        => /\ (counts.path = "direct") <=> LE(N, Py(1000))
           /\ LE(Py(1001), N) <=> (counts.path = "blocks")

C21_Witness ==
    /\ Counted /\ cpolicy = "R1" /\ N = Py(1000)
    /\ counts.ok /\ counts.path = "direct"
    /\ CopiesIn("mil", counts.tokens) = 1

\* C22: for 1000 <= N < 1 000 000 the token map of count_tokens_up_to_N(N) is
\* N div 1000 copies of the [1, 999] table, N div 1000 times "mil", and, if
\* N mod 1000 > 0, the tokens of text_number(N mod 1000) once; nothing else,
\* so that "mil" is counted N div 1000 times
C22_ThousandBlocks ==
    (Counted /\ cpolicy = "R1" /\ Between(Py(1000), N, Py(999999)))
        => LET thousands == N.lo \div 1000
               remainder == N.lo % 1000
               baseFreq == count_tokens_up_to_999.tokens
               blocks == [t \in BagToSet(baseFreq) |-> thousands * baseFreq[t]]
               mil == [t \in {"mil"} |-> thousands]
               rest == IF remainder > 0 THEN SeqToBag(Words(remainder)) ELSE EmptyBag
           IN  /\ counts.ok
               /\ SameMap(counts.tokens, blocks (+) mil (+) rest)
               /\ CopiesIn("mil", counts.tokens) = thousands

\* C23: for N >= 1 000 000 count_tokens_up_to_N(N) returns a token map that
\* counts one "milhão" (N div 10^6 = 1) or "milhões" (otherwise) per million
\* block, and no map holds both
C23_MillionBlocks ==
    (Counted /\ cpolicy = "R1" /\ Between(Py(1000000), N, MaxNumber))
        => /\ counts.ok
           /\ N.hi = 0 =>
                LET millions == N.lo \div 1000000
                IN  IF millions = 1
                    THEN /\ CopiesIn("milhão", counts.tokens) = 1
                         /\ CopiesIn("milhões", counts.tokens) = 0
                    ELSE /\ CopiesIn("milhões", counts.tokens) = millions
                         /\ CopiesIn("milhão", counts.tokens) = 0

\* C24: for every N the connective map count_tokens_up_to_N(N) returns has no
\* key but "e", and its count of "e" (the value of count_connectives_up_to_N)
\* is the count of "e" in the token map of the same call
C24_ConnectivesAreE ==
    (Counted /\ cpolicy = "R1")
        => /\ counts.ok
           /\ BagToSet(counts.conns) \subseteq {"e"}
           /\ CopiesIn("e", counts.conns) = CopiesIn("e", counts.tokens)
           /\ count_connectives_up_to_N(N, cpolicy)
                = NumOk(CopiesIn("e", counts.tokens))

C26_CheckOrder ==
    Called
        => /\ LT(n, Py(0)) => (~result.ok /\ result.err = "negative")
           /\ (LE(Py(0), n) /\ policy # "R1")
                => (~result.ok /\ result.err = "policy")
           /\ (result.err = "too_large") <=> (policy = "R1" /\ LT(MaxNumber, n))

C26_Witness ==
    /\ Called /\ n = Wide(1000, 0) /\ policy = "R2"
    /\ ~result.ok /\ result.err = "policy"

\* the three-digit groups of 0 <= x < 10^12: units, thousands, millions, billions
GroupsOf(x) ==
    <<x.lo % 1000, (x.lo \div 1000) % 1000, x.lo \div 1000000, x.hi>>

\* how often a token is in a list
Occurrences(token, tokens) == Cardinality({i \in DOMAIN tokens : tokens[i] = token})

\* C27: for n < 10^12 text_number(n) has one "cem" for every three-digit group
\* of n that is 100 and one "cento" for every group in 101..199; every "cento"
\* is followed at once by "e" and no "cem" is
C27_CemCento ==
    (Called /\ result.ok)
        => LET groups == GroupsOf(n)
               tokens == result.tokens
           IN  /\ Occurrences("cem", tokens)
                    = Cardinality({g \in DOMAIN groups : groups[g] = 100})
               /\ Occurrences("cento", tokens)
                    = Cardinality({g \in DOMAIN groups :
                                      groups[g] >= 101 /\ groups[g] <= 199})
               /\ \A i \in DOMAIN tokens :
                    /\ tokens[i] = "cento"
                        => (i < Len(tokens) /\ tokens[i + 1] = "e")
                    /\ tokens[i] = "cem"
                        => (i = Len(tokens) \/ tokens[i + 1] # "e")

C27_Witness ==
    /\ Called /\ n = Py(100101)
    /\ result.tokens = <<"cem", "mil", "e", "cento", "e", "um">>

\* C28: text_number(a) and text_number(b) are different token lists for any
\* two different a, b of 0 .. 10^12 - 1
C28_Injective ==
    (Called /\ result2 # Pending /\ result.ok /\ result2.ok /\ n # n2)
        => result.tokens # result2.tokens

C28_Witness ==
    /\ Called /\ n = Py(1000) /\ result.tokens = <<"mil">>
    /\ result2 # Pending /\ n2 = Py(1001) /\ result2.tokens = <<"mil", "e", "um">>

\* the table load_lexicon assigns in this installation
LoadedLexicon == IF file_found THEN CsvLexicon ELSE FallbackLexicon

\* C29: with load_lexicon called concurrently from the unloaded state, _loaded
\* is true only once _lexicon holds the whole table, every call returns the
\* whole table (never the initial empty dict), and _loaded never goes back
\* to false
C29_ConcurrentLoad ==
    /\ [](/\ _loaded => _lexicon = LoadedLexicon
          /\ \A t \in Threads : ret[t].returned => ret[t].lexicon = LoadedLexicon)
    /\ [][_loaded => _loaded']_vars

C29_Witness ==
    /\ \A t \in Threads : pc[t] = "done" /\ ret[t].lexicon = LoadedLexicon
    /\ ret[1].at = "return"
    /\ ret[2].at = "return"
    /\ \E t \in Threads : ret[t].at = "cached"

\* floor(count * prob)
FloorTimes(count, prob) == (count * prob.num) \div prob.den

\* C30: count_pauses gives strong_pauses as the sum of
\* floor(count * strong_pause_prob) over the keys "mil", "milhão", "milhões" of
\* token_counts, weak_pauses as floor(token_counts["e"] * weak_pause_prob) and,
\* with structural pauses, structural_pauses as
\* floor((ceil(total / B) - 1) * structural_pause_prob), never negative
C30_Pauses ==
    pause.called
        => LET token_counts == pause.token_counts
               params == pause.params
               Strong(token) ==
                   FloorTimes(CopiesIn(token, token_counts), params.strong_pause_prob)
               total == BagCardinality(token_counts)
               blocks == (total + pause.B - 1) \div pause.B
           IN  /\ pause.counts.strong_pauses
                    = Strong("mil") + Strong("milhão") + Strong("milhões")
               /\ pause.counts.weak_pauses
                    = FloorTimes(CopiesIn("e", token_counts), params.weak_pause_prob)
               /\ pause.structural
                    => /\ pause.counts.structural_pauses
                            = FloorTimes(blocks - 1, params.structural_pause_prob)
                       /\ pause.counts.structural_pauses >= 0

=============================================================================
